---- MODULE Spec2Model ----
(***************************************************************************)
(* Model of static/script_report.js: the report-download chat flow.        *)
(*                                                                         *)
(* Text is modelled as a sequence of string tokens (a token is one         *)
(* character, or one indivisible literal such as a fixed message).  An     *)
(* absent value (null) and the empty string are both the empty sequence:   *)
(* every place the script reads one treats them alike (!x, x || y).        *)
(*                                                                         *)
(* Events are the DOM events the script listens to.  A click needs its     *)
(* target to be in the document, displayed and not disabled; a keydown     *)
(* needs the overlay to be in the document.  The script has no focus trap  *)
(* and no style sheet, so the page behind the overlay stays operable.      *)
(***************************************************************************)
EXTENDS Integers, Sequences, FiniteSets, TLC

\* ------------------------------------------------------------------ bounds
MaxRequests == 1     \* requests outstanding at once
MaxChat == 5         \* children of #chat-body
MaxParts == 3        \* parameters in a Content-Disposition header

\* ------------------------------------------------------------- text helpers
Blank == " "

RECURSIVE TrimLeft(_)
TrimLeft(s) ==
  IF s = <<>> THEN <<>>
  ELSE IF Head(s) = Blank THEN TrimLeft(Tail(s)) ELSE s

RECURSIVE TrimRight(_)
TrimRight(s) ==
  IF s = <<>> THEN <<>>
  ELSE IF s[Len(s)] = Blank THEN TrimRight(SubSeq(s, 1, Len(s) - 1)) ELSE s

\* String.prototype.trim
Trim(s) == TrimRight(TrimLeft(s))

LowerChar(c) ==
  CASE c = "D" -> "d"
    [] c = "O" -> "o"
    [] c = "W" -> "w"
    [] c = "N" -> "n"
    [] c = "L" -> "l"
    [] c = "A" -> "a"
    [] c = "H" -> "h"
    [] OTHER -> c

\* String.prototype.toLowerCase
ToLowerCase_Identity(s) == s

ToLowerCase(s) == [i \in 1..Len(s) |-> LowerChar(s[i])]

\* String.prototype.includes
Includes(s, t) ==
  \E i \in 0..(Len(s) - Len(t)) : SubSeq(s, i + 1, i + Len(t)) = t

DownloadWord == <<"d", "o", "w", "n", "l", "o", "a", "d">>

\* ------------------------------------------------------------ fixed texts
WelcomeText == <<"Welcome to the Olyph AI Employee.">>
OpeningText == <<"Opening authentication modal...">>
HelpText == <<"Type 'download' or click the Download Report button to begin.">>
CancelledText == <<"Report download cancelled.">>
AuthenticatingText == <<"Authenticating and preparing report...">>
ValidationText == <<"Please enter both username and password.">>
FailedText == <<"Failed to download report. See console for details.">>
NetworkErrorPrefix == <<"Network error: ">>
WarnPrefix == <<"Warning: ">>
SuccessPrefix == <<"Report \"">>
SuccessSuffix == <<"\" downloaded successfully!">>
ServerReturned == <<"Server returned ">>
DownloadLabel == <<"Download">>
BusyLabel == <<"Downloading...">>
\* err.message of whatever the try block threw
ErrMessage == <<"err.message">>

\* --------------------------------------------------------------- variables
VARIABLES
  isLanding,   \* let isLanding
  hbDisplay,   \* #homeBtnReport style.display
  chatBody,    \* children of #chat-body, in document order
  prompts,     \* the overlays built by openCredentialModal, by instance
  requests,    \* onSubmit invocations suspended at an await, by issue order
  effects,     \* what the last step did outside the page: object URLs
               \* created and revoked, file name saved by an anchor click
  header,      \* argument of a call of parseFilenameFromDisposition
  resolved     \* how that call ended

pageVars == <<isLanding, hbDisplay, chatBody, prompts, requests, effects>>
resolverVars == <<header, resolved>>
vars == <<isLanding, hbDisplay, chatBody, prompts, requests, effects,
          header, resolved>>

NoEffects == [urlsCreated |-> 0, urlsRevoked |-> 0, saved |-> <<>>]

\* ------------------------------------------------------------ chat body
MsgNode(content, sender) ==
  [tag |-> "msg",
   cls |-> IF sender = "bot" THEN "bot-message" ELSE "user-message",
   content |-> content, display |-> "block"]

\* the .report-action div holding #reportDownloadBtn; display is the button's
ActionNode(display) ==
  [tag |-> "action", cls |-> "report-action", content |-> <<>>,
   display |-> display]

addMessage(body, content, sender) == Append(body, MsgNode(content, sender))

\* btn.style.display = "none" on the #reportDownloadBtn in the document
HideDownloadBtn(body) ==
  [i \in 1..Len(body) |->
     IF body[i].tag = "action" THEN ActionNode("none") ELSE body[i]]

DownloadBtnVisible ==
  \E i \in 1..Len(chatBody) :
     chatBody[i].tag = "action" /\ chatBody[i].display # "none"

HomeVisible == hbDisplay # "none"

\* --------------------------------------------------------------- prompts
\* An instance is the overlay with the elements and closures of one call of
\* openCredentialModal.  live: the instance is in the document or a suspended
\* onSubmit refers to it, so an event or a continuation can still reach it.
\* format is the defaultFormat its closures hold.
NoPrompt ==
  [live |-> FALSE, inDoc |-> FALSE, format |-> "",
   submitDisabled |-> FALSE, cancelDisabled |-> FALSE,
   submitText |-> <<>>, errorText |-> <<>>,
   onSubmitReg |-> FALSE, onCancelReg |-> FALSE, keyHandlerReg |-> FALSE]

NewPrompt(defaultFormat) ==
  [live |-> TRUE, inDoc |-> TRUE, format |-> defaultFormat,
   submitDisabled |-> FALSE, cancelDisabled |-> FALSE,
   submitText |-> DownloadLabel, errorText |-> <<>>,
   onSubmitReg |-> TRUE, onCancelReg |-> TRUE, keyHandlerReg |-> TRUE]

\* At most one instance is in the document and every other live one is
\* referred to by a suspended onSubmit, so these slots never run out.
PromptIds == 1..(MaxRequests + 1)

Referenced(rs, p) == \E r \in 1..Len(rs) : rs[r].prompt = p

\* An instance that is out of the document gets no event and is not shown,
\* and the script only ever writes to its elements: what they hold is not
\* kept.  Kept are the listeners its teardown left registered and whether a
\* suspended onSubmit still refers to it; once none does, its slot is free
\* for the next instance.
Collect(ps, rs) ==
  [p \in PromptIds |->
     IF ps[p].inDoc THEN ps[p]
     ELSE [NoPrompt EXCEPT !.live = Referenced(rs, p),
                           !.onSubmitReg = ps[p].onSubmitReg,
                           !.onCancelReg = ps[p].onCancelReg,
                           !.keyHandlerReg = ps[p].keyHandlerReg]]

FreeIds(ps) == {p \in PromptIds : ~ps[p].live}

\* document.getElementById("cred-modal-overlay")
OverlayInDoc(ps) == \E p \in PromptIds : ps[p].inDoc

\* the new instance takes the first free slot
Build(ps, defaultFormat) ==
  IF FreeIds(ps) = {} THEN ps
  ELSE LET p == CHOOSE q \in FreeIds(ps) : \A o \in FreeIds(ps) : q <= o
       IN [ps EXCEPT ![p] = NewPrompt(defaultFormat)]

openCredentialModal_NoCheck(ps, defaultFormat) == Build(ps, defaultFormat)

openCredentialModal(ps, defaultFormat) ==
  IF OverlayInDoc(ps) THEN ps ELSE Build(ps, defaultFormat)

\* closes whichever overlay is in the document
closeModal_ById(ps, p) ==
  [q \in PromptIds |->
     IF ps[q].inDoc
     THEN [ps[q] EXCEPT !.onSubmitReg = FALSE, !.onCancelReg = FALSE,
                        !.inDoc = FALSE]
     ELSE ps[q]]

closeModal(ps, p) ==
  [ps EXCEPT ![p].onSubmitReg = FALSE, ![p].onCancelReg = FALSE,
             ![p].inDoc = FALSE]

\* the model's bounds, applied to every step
BoundedBy(maxRequests) ==
  /\ Len(chatBody') <= MaxChat
  /\ Len(requests') <= maxRequests

Bounded == BoundedBy(MaxRequests)

\* ------------------------------------------------------------ landing
LandingBody_KeepLog(body) ==
  Append(addMessage(body, WelcomeText, "bot"), ActionNode("inline"))

LandingBody(body) ==
  Append(addMessage(<<>>, WelcomeText, "bot"), ActionNode("inline"))

\* no call of parseFilenameFromDisposition has been made
Pending == [status |-> "pending", value |-> <<>>]

InitPage ==
  /\ isLanding = TRUE
  /\ hbDisplay = "none"
  /\ chatBody = LandingBody(<<>>)
  /\ prompts = [p \in PromptIds |-> NoPrompt]
  /\ requests = <<>>
  /\ effects = NoEffects

Init ==
  /\ InitPage
  /\ header = <<>>
  /\ resolved = Pending

\* ------------------------------------------------------- inputs, bounded
TypedInputs ==
  { <<" ">>, <<"h", "i">>,
    <<" ", "D", "o", "w", "n", "l", "o", "a", "d", "s", " ">> }

Usernames == { <<" ">>, <<" ", "a", " ">> }
Passwords == { <<>>, <<" ">> }

\* ---------------------------------------------------- page-level handlers
\* initReportChat, reached from the Home button's click listener
initReportChat ==
  /\ isLanding' = TRUE
  /\ hbDisplay' = "none"
  /\ chatBody' = LandingBody(chatBody)

\* the requests outstanding when Home is activated; the script sends them no
\* signal, the mark only records that a reset happened after they were issued
MarkAbandoned(rs) ==
  [r \in 1..Len(rs) |-> [rs[r] EXCEPT !.abandoned = TRUE]]

HomeClick ==
  /\ HomeVisible
  /\ initReportChat
  /\ requests' = MarkAbandoned(requests)
  /\ UNCHANGED prompts
  /\ effects' = NoEffects
  /\ Bounded
  /\ UNCHANGED resolverVars

\* click listener of #reportDownloadBtn
EntryClick ==
  /\ DownloadBtnVisible
  /\ chatBody' = addMessage(HideDownloadBtn(chatBody), OpeningText, "bot")
  /\ prompts' = openCredentialModal(prompts, "csv")
  /\ hbDisplay' = "inline-block"
  /\ isLanding' = FALSE
  /\ effects' = NoEffects
  /\ UNCHANGED requests
  /\ Bounded
  /\ UNCHANGED resolverVars

\* click listener of #sendBtn; raw is userInput.value
SendClick(raw) ==
  LET msg == Trim(raw) IN
  /\ effects' = NoEffects
  /\ IF msg = <<>>
     THEN /\ UNCHANGED prompts
          /\ UNCHANGED <<isLanding, hbDisplay, chatBody, requests>>
     ELSE IF Includes(ToLowerCase(msg), DownloadWord)
     THEN /\ chatBody' = addMessage(
                 HideDownloadBtn(addMessage(chatBody, msg, "user")),
                 OpeningText, "bot")
          /\ prompts' = openCredentialModal(prompts, "csv")
          /\ hbDisplay' = "inline-block"
          /\ isLanding' = FALSE
          /\ UNCHANGED requests
     ELSE /\ chatBody' = addMessage(addMessage(chatBody, msg, "user"),
                                    HelpText, "bot")
          /\ UNCHANGED prompts
          /\ UNCHANGED <<isLanding, hbDisplay, requests>>
  /\ Bounded
  /\ UNCHANGED resolverVars

\* ------------------------------------------------------- prompt handlers
onCancel_NoFlag(p) ==
  /\ chatBody' = addMessage(chatBody, CancelledText, "bot")
  /\ prompts' = Collect(closeModal(prompts, p), requests)
  /\ hbDisplay' = "inline-block"
  /\ UNCHANGED <<isLanding, requests>>

onCancel(p) ==
  /\ chatBody' = addMessage(chatBody, CancelledText, "bot")
  /\ prompts' = Collect(closeModal(prompts, p), requests)
  /\ hbDisplay' = "inline-block"
  /\ isLanding' = FALSE
  /\ UNCHANGED requests

\* the fetch issued at the first await of onSubmit, and the rest of that call
NewRequest(p, username) ==
  [prompt |-> p, format |-> prompts[p].format,
   username |-> username, abandoned |-> FALSE]

\* !username || !password, username already trimmed
CredentialsMissing_UserOnly(username, password) == username = <<>>

CredentialsMissing(username, password) ==
  username = <<>> \/ password = <<>>

\* onSubmit up to its first await; userValue and passValue are the fields
onSubmit(p, userValue, passValue) ==
  LET username == Trim(userValue)
      password == passValue
  IN
  IF CredentialsMissing(username, password)
  THEN /\ prompts' = [prompts EXCEPT ![p].errorText = ValidationText]
       /\ UNCHANGED <<isLanding, hbDisplay, chatBody, requests>>
  ELSE /\ prompts' = [prompts EXCEPT ![p].errorText = <<>>,
                                     ![p].submitDisabled = TRUE,
                                     ![p].cancelDisabled = TRUE,
                                     ![p].submitText = BusyLabel]
       /\ chatBody' = addMessage(chatBody, AuthenticatingText, "bot")
       /\ requests' = Append(requests, NewRequest(p, username))
       /\ UNCHANGED <<isLanding, hbDisplay>>

\* click on #cred-submit
submitClick(p, userValue, passValue) ==
  /\ prompts[p].inDoc /\ prompts[p].onSubmitReg
  /\ ~prompts[p].submitDisabled
  /\ onSubmit(p, userValue, passValue)
  /\ effects' = NoEffects

SubmitClick(p, userValue, passValue) ==
  /\ submitClick(p, userValue, passValue)
  /\ Bounded
  /\ UNCHANGED resolverVars

\* click on #cred-cancel
CancelClick(p) ==
  /\ prompts[p].inDoc /\ prompts[p].onCancelReg
  /\ ~prompts[p].cancelDisabled
  /\ onCancel(p)
  /\ effects' = NoEffects
  /\ Bounded
  /\ UNCHANGED resolverVars

\* keyHandler, the overlay's keydown listener, on Enter
keyHandlerEnter(p, userValue, passValue) ==
  /\ prompts[p].inDoc /\ prompts[p].keyHandlerReg
  /\ onSubmit(p, userValue, passValue)
  /\ effects' = NoEffects

KeyEnter(p, userValue, passValue) ==
  /\ keyHandlerEnter(p, userValue, passValue)
  /\ Bounded
  /\ UNCHANGED resolverVars

\* keyHandler on Escape
KeyEscape(p) ==
  /\ prompts[p].inDoc /\ prompts[p].keyHandlerReg
  /\ onCancel(p)
  /\ effects' = NoEffects
  /\ Bounded
  /\ UNCHANGED resolverVars

\* ------------------------------------------------- Content-Disposition
FNSTAR == "filename*=UTF-8''"
FN == "filename="
QUOTE == "\""
SEMI == ";"
GoodEscape == "%41"      \* a well-formed percent escape
BadEscape == "%"         \* a percent sign that starts no escape

\* the longest run of tokens of d from index i on that avoids stop
RECURSIVE Run(_, _, _)
Run(d, i, stop) ==
  IF i > Len(d) \/ d[i] \in stop THEN <<>>
  ELSE <<d[i]>> \o Run(d, i + 1, stop)

MinOf(S) == CHOOSE x \in S : \A y \in S : x <= y

\* disposition.match(/filename\*=UTF-8''([^;]+)/), capture 1 or <<>>
ExtMatch(d) ==
  LET I == {i \in 1..Len(d) : d[i] = FNSTAR /\ Run(d, i + 1, {SEMI}) # <<>>}
  IN IF I = {} THEN <<>> ELSE Run(d, MinOf(I) + 1, {SEMI})

\* disposition.match(/filename="([^"]+)"/), capture 1 or <<>>
QuotedMatch(d) ==
  LET I == {i \in 1..Len(d) :
              /\ d[i] = FN
              /\ i + 1 <= Len(d) /\ d[i + 1] = QUOTE
              /\ Run(d, i + 2, {QUOTE}) # <<>>
              /\ i + 2 + Len(Run(d, i + 2, {QUOTE})) <= Len(d)}
  IN IF I = {} THEN <<>> ELSE Run(d, MinOf(I) + 2, {QUOTE})

\* disposition.match(/filename=([^;]+)/), capture 1 or <<>>
BareMatch(d) ==
  LET I == {i \in 1..Len(d) : d[i] = FN /\ Run(d, i + 1, {SEMI}) # <<>>}
  IN IF I = {} THEN <<>> ELSE Run(d, MinOf(I) + 1, {SEMI})

\* decodeURIComponent throws URIError on a malformed escape
DecodeThrows(s) == \E i \in 1..Len(s) : s[i] = BadEscape

decodeURIComponent(s) ==
  [i \in 1..Len(s) |-> IF s[i] = GoodEscape THEN "A" ELSE s[i]]

\* parseFilenameFromDisposition throws exactly when its decode does
ParseThrows(d) == ExtMatch(d) # <<>> /\ DecodeThrows(ExtMatch(d))

\* parseFilenameFromDisposition; <<>> is null
parseFilenameFromDisposition_QuotedFirst(d) ==
  IF d = <<>> THEN <<>>
  ELSE IF QuotedMatch(d) # <<>> THEN QuotedMatch(d)
  ELSE IF ExtMatch(d) # <<>> THEN decodeURIComponent(ExtMatch(d))
  ELSE IF BareMatch(d) # <<>> THEN BareMatch(d)
  ELSE <<>>

parseFilenameFromDisposition(d) ==
  IF d = <<>> THEN <<>>
  ELSE IF ExtMatch(d) # <<>> THEN decodeURIComponent(ExtMatch(d))
  ELSE IF QuotedMatch(d) # <<>> THEN QuotedMatch(d)
  ELSE IF BareMatch(d) # <<>> THEN BareMatch(d)
  ELSE <<>>

DefaultName(defaultFormat) ==
  IF defaultFormat = "xlsx" THEN <<"report.xlsx">> ELSE <<"report.csv">>

\* ---------------------------------------------------- responses, bounded
Statuses == {200, 401, 500}

StatusText(n) ==
  CASE n = 200 -> "200" [] n = 401 -> "401" [] n = 500 -> "500"
    [] OTHER -> "?"

\* Response.ok
Ok(status) == status \in 200..299

Dispositions ==
  { <<>>,
    <<"attachment", SEMI, " ", FN, QUOTE, "r.csv", QUOTE>>,
    <<FNSTAR, BadEscape>> }

\* what res.json() settles with: a rejection, an object (its error member,
\* <<>> when missing or empty), or the JSON value null
JsonBodies ==
  { [kind |-> "reject", error |-> <<>>],
    [kind |-> "object", error |-> <<>>],
    [kind |-> "object", error |-> <<"bad credentials">>],
    [kind |-> "null", error |-> <<>>] }

\* ---------------------------------------------- onSubmit after its awaits
\* the sequence without its r-th element: that call of onSubmit has returned
Remove(rs, r) == SubSeq(rs, 1, r - 1) \o SubSeq(rs, r + 1, Len(rs))

\* the catch block of onSubmit; created: object URLs made before the throw
Catch_KeepBusy(r, message, created) ==
  LET p == requests[r].prompt IN
  /\ prompts' = Collect([prompts EXCEPT
                            ![p].errorText = NetworkErrorPrefix \o message],
                         Remove(requests, r))
  /\ chatBody' = addMessage(chatBody, FailedText, "bot")
  /\ hbDisplay' = "inline-block"
  /\ isLanding' = FALSE
  /\ effects' = [NoEffects EXCEPT !.urlsCreated = created]
  /\ requests' = Remove(requests, r)

Catch(r, message, created) ==
  LET p == requests[r].prompt IN
  /\ prompts' = Collect([prompts EXCEPT
                            ![p].errorText = NetworkErrorPrefix \o message,
                            ![p].submitDisabled = FALSE,
                            ![p].cancelDisabled = FALSE,
                            ![p].submitText = DownloadLabel],
                         Remove(requests, r))
  /\ chatBody' = addMessage(chatBody, FailedText, "bot")
  /\ hbDisplay' = "inline-block"
  /\ isLanding' = FALSE
  /\ effects' = [NoEffects EXCEPT !.urlsCreated = created]
  /\ requests' = Remove(requests, r)

\* the !res.ok branch once res.json() has settled
HttpError_KeepBusy(r, status, body) ==
  LET p == requests[r].prompt
      errMsg == IF body.error # <<>> THEN body.error
                ELSE ServerReturned \o <<StatusText(status)>>
  IN
  /\ prompts' = Collect([prompts EXCEPT ![p].errorText = errMsg],
                         Remove(requests, r))
  /\ chatBody' = addMessage(chatBody, WarnPrefix \o errMsg, "bot")
  /\ hbDisplay' = "inline-block"
  /\ isLanding' = FALSE
  /\ requests' = Remove(requests, r)
  /\ effects' = NoEffects

HttpError(r, status, body) ==
  LET p == requests[r].prompt
      errMsg == IF body.error # <<>> THEN body.error
                ELSE ServerReturned \o <<StatusText(status)>>
  IN
  /\ prompts' = Collect([prompts EXCEPT
                            ![p].errorText = errMsg,
                            ![p].submitDisabled = FALSE,
                            ![p].cancelDisabled = FALSE,
                            ![p].submitText = DownloadLabel],
                         Remove(requests, r))
  /\ chatBody' = addMessage(chatBody, WarnPrefix \o errMsg, "bot")
  /\ hbDisplay' = "inline-block"
  /\ isLanding' = FALSE
  /\ requests' = Remove(requests, r)
  /\ effects' = NoEffects

\* the success branch from createObjectURL to the end of the try block:
\* the URL is created, the anchor clicked, the URL revoked
Success_KeepPrompt(r, filename) ==
  /\ effects' = [urlsCreated |-> 1, urlsRevoked |-> 1, saved |-> filename]
  /\ chatBody' = addMessage(chatBody,
                            SuccessPrefix \o filename \o SuccessSuffix, "bot")
  /\ hbDisplay' = "inline-block"
  /\ isLanding' = FALSE
  /\ requests' = Remove(requests, r)
  /\ prompts' = Collect(prompts, Remove(requests, r))

Success(r, filename) ==
  /\ effects' = [urlsCreated |-> 1, urlsRevoked |-> 1, saved |-> filename]
  /\ prompts' = Collect(closeModal(prompts, requests[r].prompt),
                         Remove(requests, r))
  /\ chatBody' = addMessage(chatBody,
                            SuccessPrefix \o filename \o SuccessSuffix, "bot")
  /\ hbDisplay' = "inline-block"
  /\ isLanding' = FALSE
  /\ requests' = Remove(requests, r)

\* A suspended onSubmit resumes when fetch() settles and, if it resolved, again
\* when res.json() or res.blob() settles.  The first resumption only tests
\* res.ok and awaits again: it reads and writes nothing another handler can
\* see, so the model takes both resumptions in one step.

\* fetch() rejects
FetchReject(r) ==
  /\ Catch(r, ErrMessage, 0)
  /\ Bounded
  /\ UNCHANGED resolverVars

\* fetch() resolves with a status outside 200..299, then res.json() settles
JsonSettle(r, status, body) ==
  /\ ~Ok(status)
  /\ IF body.kind = "null"
     THEN Catch(r, ErrMessage, 0)
     ELSE HttpError(r, status, body)
  /\ Bounded
  /\ UNCHANGED resolverVars

\* fetch() resolves with a status in 200..299, then res.blob() rejects
BlobReject(r, status) ==
  /\ Ok(status)
  /\ Catch(r, ErrMessage, 0)
  /\ Bounded
  /\ UNCHANGED resolverVars

\* fetch() resolves with a status in 200..299, then res.blob() resolves;
\* disposition is the response's Content-Disposition, saveThrows tells
\* whether the anchor append/click/remove throws
BlobResolve(r, status, disposition, saveThrows) ==
  LET parsed == parseFilenameFromDisposition(disposition)
      filename == IF parsed # <<>> THEN parsed
                  ELSE DefaultName(requests[r].format)
  IN
  /\ Ok(status)
  /\ IF ParseThrows(disposition) THEN Catch(r, ErrMessage, 0)
     ELSE IF saveThrows THEN Catch(r, ErrMessage, 1)
     ELSE Success(r, filename)
  /\ Bounded
  /\ UNCHANGED resolverVars

\* ------------------------------------------------------------ behaviours
Next ==
  \/ HomeClick
  \/ EntryClick
  \/ \E raw \in TypedInputs : SendClick(raw)
  \/ \E p \in PromptIds, u \in Usernames, w \in Passwords :
        SubmitClick(p, u, w)
  \/ \E p \in PromptIds : CancelClick(p)
  \/ \E p \in PromptIds, u \in Usernames, w \in Passwords :
        KeyEnter(p, u, w)
  \/ \E p \in PromptIds : KeyEscape(p)
  \/ \E r \in 1..Len(requests) : FetchReject(r)
  \/ \E r \in 1..Len(requests), s \in Statuses, b \in JsonBodies :
        JsonSettle(r, s, b)
  \/ \E r \in 1..Len(requests), s \in Statuses : BlobReject(r, s)
  \/ \E r \in 1..Len(requests), s \in Statuses, d \in Dispositions,
        t \in BOOLEAN : BlobResolve(r, s, d, t)

Spec == Init /\ [][Next]_vars

\* The same program with room for one more outstanding request in the two
\* events that can issue one.
SubmitClickBurst(p, userValue, passValue) ==
  /\ submitClick(p, userValue, passValue)
  /\ BoundedBy(MaxRequests + 1)
  /\ UNCHANGED resolverVars

KeyEnterBurst(p, userValue, passValue) ==
  /\ keyHandlerEnter(p, userValue, passValue)
  /\ BoundedBy(MaxRequests + 1)
  /\ UNCHANGED resolverVars

NextBurst ==
  \/ Next
  \/ \E p \in PromptIds, u \in Usernames, w \in Passwords :
        SubmitClickBurst(p, u, w)
  \/ \E p \in PromptIds, u \in Usernames, w \in Passwords :
        KeyEnterBurst(p, u, w)

SpecBurst == Init /\ [][NextBurst]_vars

\* ------------------------------------- the file name resolver on its own
\* parameters a Content-Disposition header is made of
ExtPlain == <<FNSTAR, "e">>
ExtEscaped == <<FNSTAR, GoodEscape>>
ExtBad == <<FNSTAR, BadEscape>>
ExtEmpty == <<FNSTAR>>
Quoted == <<FN, QUOTE, "q", QUOTE>>
QuotedEmpty == <<FN, QUOTE, QUOTE>>
Bare == <<FN, "b">>
BareEmpty == <<FN>>
Noise == <<"attachment">>

Parts ==
  { ExtPlain, ExtEscaped, ExtBad, ExtEmpty, Quoted, QuotedEmpty, Bare,
    BareEmpty, Noise }

\* the parameters joined by semicolons
RECURSIVE Join(_)
Join(ps) ==
  IF ps = <<>> THEN <<>>
  ELSE IF Len(ps) = 1 THEN ps[1]
  ELSE ps[1] \o <<SEMI>> \o Join(Tail(ps))

\* the headers of up to MaxParts parameters; <<>> is the absent header
Headers == { Join(ps) : ps \in UNION { [1..n -> Parts] : n \in 0..MaxParts } }

InitResolver ==
  /\ InitPage
  /\ header \in Headers
  /\ resolved = Pending

\* one call of parseFilenameFromDisposition(header)
Resolve ==
  /\ resolved = Pending
  /\ resolved' =
        IF ParseThrows(header) THEN [status |-> "threw", value |-> <<>>]
        ELSE [status |-> "returned",
              value |-> parseFilenameFromDisposition(header)]
  /\ UNCHANGED header
  /\ UNCHANGED pageVars

SpecResolver == InitResolver /\ [][Resolve]_vars

\* ---------------------------------------------------------------- claims
InDoc(ps) == {p \in PromptIds : ps[p].inDoc}

OutstandingOf(p) == {r \in 1..Len(requests) : requests[r].prompt = p}

\* a suspended onSubmit runs to its end
Resolves(r) ==
  \/ FetchReject(r)
  \/ \E s \in Statuses, b \in JsonBodies : JsonSettle(r, s, b)
  \/ \E s \in Statuses : BlobReject(r, s)
  \/ \E s \in Statuses, d \in Dispositions, t \in BOOLEAN :
       BlobResolve(r, s, d, t)

\* a handler calls openCredentialModal
OpenRequest ==
  \/ EntryClick
  \/ \E raw \in TypedInputs :
       Includes(ToLowerCase(Trim(raw)), DownloadWord) /\ SendClick(raw)

\* C1: in every reachable state the Home button is displayed exactly when
\* the session is not on the landing screen.
C1_HomeVisibleIffNotLanding == HomeVisible <=> ~isLanding

\* a non-landing state whose entry point is displayed: a handler of a prompt
\* that outlived a Home click has run
C1_Witness == HomeVisible /\ ~isLanding /\ DownloadBtnVisible

\* C2: in every reachable state the Download Report button is displayed
\* exactly when the session is on the landing screen.
C2_EntryVisibleIffLanding == DownloadBtnVisible <=> isLanding

\* C3: no prompt instance ever has more than one request outstanding.
C3_OneRequestPerPrompt ==
  \A p \in PromptIds : Cardinality(OutstandingOf(p)) <= 1

\* C4: whenever a transaction has ended, every object URL it created has
\* been revoked.
C4_UrlReleased == effects.urlsCreated = effects.urlsRevoked

\* C5: right after a Home click no prompt is in the document.
C5_HomeClosesPrompt == [][HomeClick => InDoc(prompts') = {}]_vars

\* C6: when a request that was outstanding at a Home click runs to its end,
\* the message log, the Home button and the session state stay as they were
\* and nothing is saved.
C6_StaleResolutionNoOp ==
  [][\A r \in 1..Len(requests) :
       (requests[r].abandoned /\ Resolves(r)) =>
          /\ chatBody' = chatBody
          /\ hbDisplay' = hbDisplay
          /\ isLanding' = isLanding
          /\ effects'.saved = <<>>]_vars

\* C7 as claimed: at most one prompt is in the document, and a handler that
\* asks for a prompt while one is open changes neither the prompts, nor the
\* message log, nor the Home button, nor the session state.
C7_OpenWhileOpenChangesNothing ==
  /\ [](Cardinality(InDoc(prompts)) <= 1)
  /\ [][(InDoc(prompts) # {} /\ OpenRequest) =>
          /\ InDoc(prompts') = InDoc(prompts)
          /\ chatBody' = chatBody
          /\ hbDisplay' = hbDisplay
          /\ isLanding' = isLanding]_vars

\* C7 as amended: at most one prompt is in the document, and a handler that
\* asks for a prompt while one is open builds none and leaves the open
\* instance and the outstanding requests as they were; the handler still
\* appends its announcement last, shows Home and leaves the landing state.
C7_SinglePrompt ==
  /\ [](Cardinality(InDoc(prompts)) <= 1)
  /\ [][(InDoc(prompts) # {} /\ OpenRequest) =>
          /\ InDoc(prompts') = InDoc(prompts)
          /\ \A p \in InDoc(prompts) : prompts'[p] = prompts[p]
          /\ requests' = requests
          /\ chatBody'[Len(chatBody')] = MsgNode(OpeningText, "bot")
          /\ Len(chatBody') > Len(chatBody)
          /\ hbDisplay' = "inline-block"
          /\ isLanding' = FALSE]_vars

\* a prompt is open and the typed command asked for one again
C7_Witness ==
  /\ InDoc(prompts) # {}
  /\ Len(chatBody) = 5
  /\ chatBody[3] = MsgNode(OpeningText, "bot")
  /\ chatBody[4].cls = "user-message"
  /\ chatBody[5] = MsgNode(OpeningText, "bot")

\* C8: a submission (click or Enter) whose trimmed username or whose
\* password is empty issues no request and leaves the session state, the
\* Home button, the message log and the prompt as they were, but for the
\* prompt's error text.
C8_InvalidSubmitFrame ==
  [][\A p \in PromptIds, u \in Usernames, w \in Passwords :
       ((Trim(u) = <<>> \/ w = <<>>)
          /\ (SubmitClick(p, u, w) \/ KeyEnter(p, u, w))) =>
          /\ requests' = requests
          /\ isLanding' = isLanding
          /\ hbDisplay' = hbDisplay
          /\ chatBody' = chatBody
          /\ effects' = NoEffects
          /\ prompts'[p] = [prompts[p] EXCEPT !.errorText = ValidationText]
          /\ InDoc(prompts') = InDoc(prompts)]_vars

\* an invalid Enter while the prompt's request is outstanding
C8_Witness ==
  \E p \in PromptIds :
     /\ prompts[p].inDoc
     /\ prompts[p].errorText = ValidationText
     /\ prompts[p].submitDisabled
     /\ OutstandingOf(p) # {}

\* C9: a Home click leaves the welcome message as the only message, one
\* displayed entry point, the Home button hidden and the landing state.
C9_HomeResetsToLanding ==
  [][HomeClick =>
       /\ isLanding'
       /\ hbDisplay' = "none"
       /\ {i \in 1..Len(chatBody') : chatBody'[i].tag = "msg"} = {1}
       /\ chatBody'[1].content = WelcomeText
       /\ Cardinality({i \in 1..Len(chatBody') :
                         /\ chatBody'[i].tag = "action"
                         /\ chatBody'[i].display # "none"}) = 1]_vars

\* the landing screen behind an open prompt with a request outstanding
C9_Witness ==
  /\ isLanding
  /\ InDoc(prompts) # {}
  /\ \E r \in 1..Len(requests) : requests[r].abandoned

\* what the end of a successful transaction looks like
SuccessOutcome(r) ==
  /\ ~prompts'[requests[r].prompt].inDoc
  /\ hbDisplay' = "inline-block"
  /\ effects'.saved # <<>>
  /\ chatBody' = Append(chatBody,
                        MsgNode(SuccessPrefix \o effects'.saved \o SuccessSuffix,
                                "bot"))

\* C10 as claimed: when a request resolves with a success status, its
\* prompt is closed, Home is displayed and one success message naming the
\* file is appended.
C10_SuccessStatusClosesPrompt ==
  [][\A r \in 1..Len(requests), s \in Statuses :
       (Ok(s) /\ (BlobReject(r, s)
                    \/ \E d \in Dispositions, t \in BOOLEAN :
                          BlobResolve(r, s, d, t))) =>
          SuccessOutcome(r)]_vars

\* what the end of a transaction that threw looks like
FailureOutcome(r) ==
  LET p == requests[r].prompt IN
  /\ prompts'[p].inDoc = prompts[p].inDoc
  /\ prompts[p].inDoc =>
        prompts'[p] = [prompts[p] EXCEPT
                         !.errorText = NetworkErrorPrefix \o ErrMessage,
                         !.submitDisabled = FALSE,
                         !.cancelDisabled = FALSE,
                         !.submitText = DownloadLabel]
  /\ hbDisplay' = "inline-block"
  /\ effects'.saved = <<>>
  /\ chatBody' = Append(chatBody, MsgNode(FailedText, "bot"))

\* C10 as amended: when a request resolves with a success status and the
\* body is read, the file name resolved and the file saved without a throw,
\* its prompt is closed, Home is displayed and one success message naming
\* the saved file is appended; when one of these throws, its prompt is not
\* closed, the prompt's controls are enabled again, Home is displayed, one
\* failure message is appended and nothing is saved.
C10_SuccessClosesPrompt ==
  [][\A r \in 1..Len(requests), s \in Statuses :
       /\ \A d \in Dispositions, t \in BOOLEAN :
             (Ok(s) /\ BlobResolve(r, s, d, t)) =>
                IF ParseThrows(d) \/ t THEN FailureOutcome(r)
                ELSE SuccessOutcome(r)
       /\ (Ok(s) /\ BlobReject(r, s)) => FailureOutcome(r)]_vars

\* a file was just saved by a prompt that is now closed
C10_Witness ==
  /\ effects.saved # <<>>
  /\ InDoc(prompts) = {}
  /\ HomeVisible
  /\ \E p \in PromptIds : prompts[p].keyHandlerReg

\* the prompt of request r is neither closed nor opened by the step and, if
\* it is in the document, ends usable for a retry with text as its error
Retryable(r, text) ==
  LET p == requests[r].prompt IN
  /\ prompts'[p].inDoc = prompts[p].inDoc
  /\ prompts[p].inDoc =>
        /\ prompts'[p].errorText = text
        /\ ~prompts'[p].submitDisabled
        /\ ~prompts'[p].cancelDisabled
        /\ prompts'[p].submitText = DownloadLabel

\* the error text the claim expects for a non-success response
ExpectedError(status, body) ==
  IF body.error # <<>> THEN body.error
  ELSE ServerReturned \o <<StatusText(status)>>

\* C11: when a request resolves with a non-success status, its prompt is
\* not closed and has its controls enabled again, Home is displayed, the
\* inline error is the error string of the JSON body when there is one and
\* the status-derived message otherwise, and one log entry carrying that
\* same text is appended.
C11_HttpErrorSurfaced ==
  [][\A r \in 1..Len(requests), s \in Statuses, b \in JsonBodies :
       JsonSettle(r, s, b) =>
          /\ Retryable(r, ExpectedError(s, b))
          /\ hbDisplay' = "inline-block"
          /\ Len(chatBody') = Len(chatBody) + 1
          /\ Includes(chatBody'[Len(chatBody')].content,
                      ExpectedError(s, b))]_vars

\* C12: when fetch rejects, the network error is shown in the prompt and in
\* the log, no object URL is created, and the prompt is not closed and has
\* its controls enabled again.
C12_NetworkErrorRetryable ==
  [][\A r \in 1..Len(requests) :
       FetchReject(r) =>
          /\ Retryable(r, NetworkErrorPrefix \o ErrMessage)
          /\ chatBody' = Append(chatBody, MsgNode(FailedText, "bot"))
          /\ effects'.urlsCreated = 0
          /\ effects'.saved = <<>>
          /\ hbDisplay' = "inline-block"]_vars

\* a prompt in the document shows the network error with its controls
\* enabled and no request outstanding
C12_Witness ==
  \E p \in PromptIds :
     /\ prompts[p].inDoc
     /\ prompts[p].errorText = NetworkErrorPrefix \o ErrMessage
     /\ ~prompts[p].submitDisabled /\ ~prompts[p].cancelDisabled
     /\ prompts[p].submitText = DownloadLabel
     /\ OutstandingOf(p) = {}
     /\ chatBody[Len(chatBody)] = MsgNode(FailedText, "bot")
     /\ effects.urlsCreated = 0

\* the parameters of a header: its maximal runs free of semicolons, less
\* their leading blanks
RECURSIVE Split(_)
Split(d) ==
  IF d = <<>> THEN <<>>
  ELSE LET first == Run(d, 1, {SEMI}) IN
       IF Len(first) = Len(d) THEN <<TrimLeft(first)>>
       ELSE <<TrimLeft(first)>> \o Split(SubSeq(d, Len(first) + 2, Len(d)))

\* the three forms of a parameter, each with a value of at least one token
IsExt(part) == Len(part) >= 2 /\ part[1] = FNSTAR
IsQuoted(part) ==
  Len(part) >= 4 /\ part[1] = FN /\ part[2] = QUOTE /\ part[Len(part)] = QUOTE
IsBare(part) == Len(part) >= 2 /\ part[1] = FN /\ part[2] # QUOTE

\* a parameter that is one of the forms, its escapes well formed, or that
\* names no file at all
WellFormedPart(part) ==
  \/ IsExt(part) /\ \A i \in 2..Len(part) : part[i] # BadEscape
  \/ IsQuoted(part)
  \/ IsBare(part)
  \/ \A i \in 1..Len(part) : part[i] \notin {FN, FNSTAR, QUOTE}

WellFormed(d) == \A i \in 1..Len(Split(d)) : WellFormedPart(Split(d)[i])

\* the first parameter of a header that has the given form
FirstPart(d, Is(_)) ==
  LET ps == Split(d)
      I == {i \in 1..Len(ps) : Is(ps[i])}
  IN ps[MinOf(I)]

HasPart(d, Is(_)) == \E i \in 1..Len(Split(d)) : Is(Split(d)[i])

\* the name the precedence rule gives for a well-formed header
ExpectedName(d) ==
  IF HasPart(d, IsExt)
  THEN LET part == FirstPart(d, IsExt) IN
       [i \in 1..(Len(part) - 1) |->
          IF part[i + 1] = GoodEscape THEN "A" ELSE part[i + 1]]
  ELSE IF HasPart(d, IsQuoted)
  THEN LET part == FirstPart(d, IsQuoted) IN SubSeq(part, 3, Len(part) - 1)
  ELSE IF HasPart(d, IsBare)
  THEN LET part == FirstPart(d, IsBare) IN SubSeq(part, 2, Len(part))
  ELSE <<>>

\* C13: for a header whose parameters are well formed the resolver returns
\* the percent-decoded value of the first extended parameter if there is
\* one, else the value between the quotes of the first quoted parameter if
\* there is one, else the value of the first bare parameter, else null; a
\* name taken from a quoted parameter carries no quote.
C13_Precedence ==
  (resolved # Pending /\ WellFormed(header)) =>
     /\ resolved.status = "returned"
     /\ resolved.value = ExpectedName(header)
     /\ (~HasPart(header, IsExt) /\ HasPart(header, IsQuoted)) =>
           \A i \in 1..Len(resolved.value) : resolved.value[i] # QUOTE

\* the extended parameter comes last, after a quoted and a bare one, and its
\* decoded value is what the call returned
C13_Witness ==
  /\ header = Join(<<Quoted, Bare, ExtEscaped>>)
  /\ resolved = [status |-> "returned", value |-> <<"A">>]

\* no parameter of the header yields a file name: none is a quoted or bare
\* form or an extended form with well-formed escapes
Unusable(d) ==
  \A i \in 1..Len(Split(d)) :
     LET part == Split(d)[i] IN
     /\ ~IsQuoted(part)
     /\ ~IsBare(part)
     /\ IsExt(part) => \E j \in 2..Len(part) : part[j] = BadEscape

\* C14: when a success response carries no Content-Disposition header or
\* one that yields no file name, and the save does not throw, the
\* transaction ends as a success that saves the file under the default name
\* of the prompt's format.
C14_DefaultNameOnUnusable ==
  [][\A r \in 1..Len(requests), s \in Statuses, d \in Dispositions :
       (Ok(s) /\ Unusable(d) /\ BlobResolve(r, s, d, FALSE)) =>
          /\ SuccessOutcome(r)
          /\ effects'.saved = DefaultName(requests[r].format)]_vars

\* the cancel handler of prompt p runs, by click or by Escape
Cancels(p) == CancelClick(p) \/ KeyEscape(p)

\* C15: a cancellation closes its prompt, appends one cancellation message
\* and displays Home, and it never happens while a request issued from that
\* prompt is outstanding.
C15_CancelOnlyWhenIdle ==
  [][\A p \in PromptIds :
       Cancels(p) =>
          /\ OutstandingOf(p) = {}
          /\ ~prompts'[p].inDoc
          /\ chatBody' = Append(chatBody, MsgNode(CancelledText, "bot"))
          /\ hbDisplay' = "inline-block"
          /\ requests' = requests]_vars

\* C16: for a prompt in the document, Enter does something exactly when a
\* click on submit would, and Escape exactly when a click on cancel would.
C16_KeysEquivalentToControls ==
  \A p \in InDoc(prompts) :
     /\ (ENABLED KeyEscape(p)) <=> (ENABLED CancelClick(p))
     /\ \A u \in Usernames, w \in Passwords :
           (ENABLED KeyEnter(p, u, w)) <=> (ENABLED SubmitClick(p, u, w))

\* the letters of "download" in capitals
UpperWord == <<"D", "O", "W", "N", "L", "O", "A", "D">>

\* text contains "download", each letter in either case
MentionsDownload(text) ==
  \E i \in 0..(Len(text) - 8) :
     \A k \in 1..8 : text[i + k] \in {DownloadWord[k], UpperWord[k]}

\* what a typed command that asks for the download does
OpensPrompt(raw, text) ==
  /\ chatBody' = Append(Append(HideDownloadBtn(chatBody),
                                MsgNode(text, "user")),
                         MsgNode(OpeningText, "bot"))
  /\ ~DownloadBtnVisible'
  /\ Cardinality(InDoc(prompts')) = 1
  /\ InDoc(prompts) # {} => prompts' = prompts
  /\ hbDisplay' = "inline-block"
  /\ isLanding' = FALSE
  /\ requests' = requests
  /\ effects' = NoEffects

\* what any other typed text does
OnlyHelps(raw, text) ==
  /\ chatBody' = Append(Append(chatBody, MsgNode(text, "user")),
                         MsgNode(HelpText, "bot"))
  /\ isLanding' = isLanding
  /\ hbDisplay' = hbDisplay
  /\ prompts' = prompts
  /\ requests' = requests
  /\ effects' = NoEffects

\* C17 as claimed: typed text that is not empty and mentions "download"
\* hides the entry point, appends the announcement, opens the prompt and
\* shows Home; any other text that is not empty appends the user message and
\* the help message and changes nothing else.
C17_TypedTextNonEmpty ==
  [][\A raw \in TypedInputs :
       (raw # <<>> /\ SendClick(raw)) =>
          IF MentionsDownload(raw) THEN OpensPrompt(raw, Trim(raw))
          ELSE OnlyHelps(raw, Trim(raw))]_vars

\* C17 as amended: the same for text that is not empty once trimmed, the
\* user message being the trimmed text; text that is empty once trimmed
\* changes nothing at all.
C17_TypedTextTrimmed ==
  [][\A raw \in TypedInputs :
       SendClick(raw) =>
          IF Trim(raw) = <<>>
          THEN /\ UNCHANGED <<isLanding, hbDisplay, chatBody, prompts,
                              requests>>
               /\ effects' = NoEffects
          ELSE IF MentionsDownload(raw) THEN OpensPrompt(raw, Trim(raw))
          ELSE OnlyHelps(raw, Trim(raw))]_vars

\* the command was typed in capitals with blanks around it: the log shows
\* it trimmed, followed by the announcement, and the prompt is open
C17_Witness ==
  /\ Len(chatBody) = 4
  /\ chatBody[3] =
       MsgNode(<<"D", "o", "w", "n", "l", "o", "a", "d", "s">>, "user")
  /\ chatBody[4] = MsgNode(OpeningText, "bot")
  /\ InDoc(prompts) # {}
  /\ ~DownloadBtnVisible
  /\ HomeVisible

\* C18: a prompt that is out of the document has none of its three
\* listeners (submit click, cancel click, keydown) registered.
C18_TeardownDeregistersAll ==
  \A p \in PromptIds :
     ~prompts[p].inDoc =>
        /\ ~prompts[p].onSubmitReg
        /\ ~prompts[p].onCancelReg
        /\ ~prompts[p].keyHandlerReg

\* C19: whenever a request runs to its end, by any path, the prompt that
\* issued it is then out of the document or has both controls enabled and
\* the submit label restored.
C19_ResolutionFreesPrompt ==
  [][\A r \in 1..Len(requests) :
       Resolves(r) =>
          LET p == requests[r].prompt IN
          \/ ~prompts'[p].inDoc
          \/ /\ ~prompts'[p].submitDisabled
             /\ ~prompts'[p].cancelDisabled
             /\ prompts'[p].submitText = DownloadLabel]_vars

\* a prompt in the document is usable again after the server refused the
\* credentials
C19_Witness ==
  \E p \in PromptIds :
     /\ prompts[p].inDoc
     /\ prompts[p].errorText = <<"bad credentials">>
     /\ ~prompts[p].submitDisabled /\ ~prompts[p].cancelDisabled
     /\ prompts[p].submitText = DownloadLabel
     /\ OutstandingOf(p) = {}

\* C20: when a request runs to its end, every prompt other than the one
\* that issued it stays exactly as it was: not closed, controls and error
\* text untouched.
C20_ResolutionTouchesOwnPrompt ==
  [][\A r \in 1..Len(requests) :
       Resolves(r) =>
          \A q \in InDoc(prompts) \ {requests[r].prompt} :
             prompts'[q] = prompts[q]]_vars

\* a download was just saved by a request whose prompt had been closed with
\* Escape, while a newer prompt is open and untouched
C20_Witness ==
  /\ effects.saved # <<>>
  /\ \E q \in PromptIds :
       /\ prompts[q] = NewPrompt("csv")
       /\ \E p \in PromptIds \ {q} :
            ~prompts[p].inDoc /\ prompts[p].keyHandlerReg

====
